---- MODULE Spec2Model ----
(***************************************************************************)
(* Model of the media composition pipeline of whwebapi:                    *)
(* VideoController.renderVideo -> VideoService.renderVideoById ->          *)
(* VideoService.renderVideo (the parallel fan-out version, and the older   *)
(* sequential version kept in the same source file).                       *)
(*                                                                         *)
(* Durations are integer milliseconds (a JS number of seconds with three   *)
(* decimals). File contents are abstracted to what the pipeline inspects:  *)
(* the manifest's lines and the output's byte length.                      *)
(*                                                                         *)
(* Beside the pipeline (Spec, SpecConc) the module holds the subtitle time *)
(* formatter (SpecFmt), the image bookkeeping of the two versions run side *)
(* by side (SpecEq) and WebhookService.handleWhopWebhook over the users    *)
(* table (SpecHook).                                                       *)
(***************************************************************************)
EXTENDS Integers, Sequences, FiniteSets, TLC

VARIABLES
    sep,             \* path separator of the platform (path.join)
    supabase,        \* TRUE iff the constructor created the Supabase client
    used,            \* session identifiers uuidv4() has handed out
    files,           \* the file system: file id -> content
    dirs,            \* session directories that exist
    video_data,      \* the video_data table: video id -> <<>> or <<row>>
    inbox,           \* per job: the render request it serves
    pc,              \* per job: position in the pipeline
    videoData,       \* per job: the video_data row loaded, <<>> if none
    args,            \* per job: renderVideo's audioUrl, images, duration
    session,         \* per job: session identifier, 0 before it is drawn
    audioSt,         \* per job: "none" | "ok" | "failed"
    fetchSt,         \* per job: per image "inflight" | "ok" | "failed"
    completed,       \* per job: image indices (0-based) in completion order
    imagePaths,      \* per job: the JS array imagePaths (may hold holes)
    validImagePaths, \* per job: imagePaths.filter(Boolean)
    encoder,         \* per job: the ffmpeg invocations made
    produced,        \* per job: <<>> or <<byte length of the output ffmpeg wrote>>
    videoBuffer,     \* per job: <<>> or <<byte length read from output.mp4>>
    cleanupCount,    \* per job: how often the cleanup block was entered
    exitPath,        \* per job: stage at which the job left the pipeline
    outcomes,        \* per job: terminal outcomes delivered to the caller
    touched,         \* per job: set of <<operation, file id>> performed
    fetched,         \* per job: the references requested over the network
    fmt,             \* the subtitle time formatter: its input and its output
    eq,              \* the two versions' image bookkeeping run side by side
    users,           \* the users table: whop_user_id -> row
    usersInit,       \* the users table before any webhook
    hookPayload,     \* per webhook call: the payload posted
    hookPc,          \* per webhook call: position in handleWhopWebhook
    hookUser,        \* per webhook call: <<>> or <<the row the select returned>>
    hookLog,         \* per webhook call: the database operations it issued
    hookResult       \* per webhook call: <<>> or <<what the call returned or threw>>

pipeVars == <<sep, supabase, used, files, dirs, video_data, inbox, pc, videoData,
              args, session, audioSt, fetchSt, completed, imagePaths,
              validImagePaths, encoder, produced, videoBuffer, cleanupCount,
              exitPath, outcomes, touched, fetched>>

hookVars == <<users, usersInit, hookPayload, hookPc, hookUser, hookLog, hookResult>>

vars == <<pipeVars, fmt, eq, hookVars>>

-----------------------------------------------------------------------------
(* Bounds of the model *)

MaxImages ==
    2

MaxJobs ==
    2

DurSpread ==
    1

MaxOutputBytes ==
    2

FmtMaxHours ==
    1

MaxHooks ==
    2

(* Program constants *)

FallbackDurationMs ==
    30000

INTERNAL_SERVER_ERROR ==
    500

CreditsPerPayment ==
    100

-----------------------------------------------------------------------------
(* Values *)

Jobs == DOMAIN pc

\* An absent array element (undefined), shaped like a path
Hole == [sep |-> "", session |-> 0, name |-> ""]

NoImagesMsg == "No images were processed successfully"

\* References, as the token sequences the regular expression of decodeDataUrl
\* distinguishes: data:<type>;base64,<body>
DataUrlOk == <<"data:", "image/png", ";base64,", "AAAA">>

DataUrlBad == <<"data:", "garbage">>

RemoteUrl == <<"https:", "//cdn.example/asset">>

Refs == {DataUrlOk, DataUrlBad, RemoteUrl}

RECURSIVE SeqsUpTo(_, _)
SeqsUpTo(S, n) ==
    IF n = 0 THEN {<<>>}
    ELSE LET shorter == SeqsUpTo(S, n - 1)
         IN  shorter \cup {Append(s, x) : s \in {t \in shorter : Len(t) = n - 1}, x \in S}

\* Image references: a remote one (every outcome of a download) and a malformed
\* inline one (always fails)
ImageRefs == {DataUrlBad, RemoteUrl}

ImageLists == SeqsUpTo(ImageRefs, MaxImages)

Durations == {0} \cup (1000 .. (1000 + DurSpread))

Caption == [text |-> "hello", start |-> 0, end |-> 500]

CaptionLists == {<<>>, <<Caption>>}

\* A nullable column is <<>> (null) or <<value>>
VideoRows ==
    [audio_file_url : Refs,
     image_list     : {<<>>} \cup {<<l>> : l \in ImageLists},
     duration       : {<<>>} \cup {<<d>> : d \in Durations},
     captions       : CaptionLists,
     show_captions  : BOOLEAN]

VideoIds == {"v1"}

\* A request names a stored video (VideoController.renderVideo) or carries the
\* assets itself (a direct call of one of the two versions of renderVideo)
ByIdRequests ==
    [kind : {"byId"}, videoId : VideoIds]

ExplicitRequests ==
    [kind : {"explicit"}, variant : {"parallel", "sequential"},
     audioUrl : Refs, images : ImageLists, duration : Durations]

Variant(j) ==
    IF inbox[j].kind = "byId" THEN "parallel" ELSE inbox[j].variant

\* The identifiers uuidv4() can return
SessionIds == 1 .. Cardinality(Jobs)

-----------------------------------------------------------------------------
(* Pure helpers of the service *)

\* A test that takes no reference for an inline payload
isDataUrlNever(url) ==
    FALSE

\* url.startsWith('data:')
isDataUrl(url) ==
    url[1] = "data:"

\* dataUrl.match(/^data:([^;]+);base64,(.+)$/)
MatchesDataUrl(url) ==
    /\ Len(url) = 4
    /\ url[1] = "data:"
    /\ url[2] # ""
    /\ url[3] = ";base64,"
    /\ url[4] # ""

\* The runs of downloadFile for a reference: whether fetch(url) is called, and
\* how the call ends ("ok", or the step that fails)
DownloadRuns(url) ==
    IF isDataUrl(url)
    THEN IF MatchesDataUrl(url)
         THEN [network : {FALSE}, outcome : {"ok", "write"}]
         ELSE [network : {FALSE}, outcome : {"decode"}]
    ELSE [network : {TRUE}, outcome : {"ok", "status", "transport", "write"}]

\* How a downloadFile call can end for a reference
DownloadOutcomes(url) ==
    {r.outcome : r \in DownloadRuns(url)}

DownloadErrorMessage(cause, v) ==
    CASE cause = "decode"    -> "Invalid data URL format"
      [] cause = "status"    -> IF v = "parallel" THEN "Failed to download file: 404"
                                ELSE "Failed to download audio: 404"
      [] cause = "transport" -> "fetch failed"
      [] cause = "write"     -> "ENOSPC: no space left on device, write"

\* join(os.tmpdir(), `video-${session}`)
TempDir(s) ==
    [sep |-> sep, session |-> s, name |-> ""]

\* join(tempDir, name)
Join(dir, name) ==
    [dir EXCEPT !.name = name]

\* String(i).padStart(3, '0'), for the indices the model reaches
PadStart3(i) ==
    IF i < 10 THEN "00" \o ToString(i)
    ELSE IF i < 100 THEN "0" \o ToString(i)
    ELSE ToString(i)

ImagePath(s, i) ==
    Join(TempDir(s), "image_" \o PadStart3(i) \o ".png")

AudioPath(s) == Join(TempDir(s), "audio.mp3")

FilelistPath(s) == Join(TempDir(s), "filelist.txt")

OutputPath(s) == Join(TempDir(s), "output.mp4")

\* path.replace(/\\/g, '/')
NormalizePath(p) ==
    [p EXCEPT !.sep = "/"]

\* The file a path names: both separators name the same file
FileId(p) ==
    <<p.session, p.name>>

-----------------------------------------------------------------------------
(* JS arrays: a sequence whose absent elements are Hole; index i is 0-based *)

Max(a, b) == IF a >= b THEN a ELSE b

\* arr[i] = v
ArrAssign(arr, i, v) ==
    [k \in 1 .. Max(Len(arr), i + 1) |->
        IF k = i + 1 THEN v ELSE IF k <= Len(arr) THEN arr[k] ELSE Hole]

\* arr.push(v)
ArrPush(arr, v) ==
    Append(arr, v)

IsPath(x) == x # Hole

\* arr.filter(Boolean)
FilterBoolean(arr) ==
    SelectSeq(arr, IsPath)

-----------------------------------------------------------------------------
(* Timeline and manifest *)

\* duration / images.length: the share an input image would get
ImageDurationPerInput(duration, nValid, nImages) ==
    [num |-> duration, den |-> nImages]

\* duration / validImagePaths.length, kept exact as a fraction of milliseconds
ImageDuration(duration, nValid, nImages) ==
    [num |-> duration, den |-> nValid]

\* imageDuration.toFixed(3): the nearest millisecond. When the exact quotient
\* lies halfway between two milliseconds, the double that stands for it lies on
\* one side or the other, and either neighbour can be printed.
ToFixed3(q) ==
    IF (2 * q.num) % (2 * q.den) = q.den
    THEN {q.num \div q.den, q.num \div q.den + 1}
    ELSE {(2 * q.num + q.den) \div (2 * q.den)}

\* `file '${normalizedPath}'\n`
FileLine(p) == [kind |-> "file", path |-> NormalizePath(p), ms |-> 0]

\* `duration ${imageDuration.toFixed(3)}\n`
DurationLine(ms) == [kind |-> "duration", path |-> Hole, ms |-> ms]

\* A manifest that stops after the last duration line
ManifestLinesNoRepeat(valid, ms) ==
    [k \in 1 .. 2 * Len(valid) |->
        IF k % 2 = 1 THEN FileLine(valid[(k + 1) \div 2]) ELSE DurationLine(ms)]

\* filelistContent, with ms the printed duration: file and duration for every
\* valid image, then the last image's file line once more
ManifestLines(valid, ms) ==
    [k \in 1 .. 2 * Len(valid) + 1 |->
        IF k = 2 * Len(valid) + 1 THEN FileLine(valid[Len(valid)])
        ELSE IF k % 2 = 1 THEN FileLine(valid[(k + 1) \div 2])
        ELSE DurationLine(ms)]

-----------------------------------------------------------------------------
(* The encoder invocation *)

ScalePad ==
    "scale=1280:1080:force_original_aspect_ratio=decrease,pad=1280:1080:(ow-iw)/2:(oh-ih)/2"

SubtitlesFilter == "subtitles"

\* A filter chain that burns in subtitles whenever the row holds captions
VideoFilterWithCaptions(j) ==
    IF videoData[j] # <<>> /\ videoData[j][1].captions # <<>>
    THEN <<ScalePad, SubtitlesFilter>>
    ELSE <<ScalePad>>

\* The value of -vf
VideoFilter(j) ==
    <<ScalePad>>

OutputOptions(j) ==
    IF Variant(j) = "parallel"
    THEN [preset |-> "faster", crf |-> "23", audioBitrate |-> "128k"]
    ELSE [preset |-> "medium", crf |-> "default", audioBitrate |-> "192k"]

\* ffmpeg().input(filelistPath).inputOptions(..).input(audioPath)
\*         .outputOptions(..).output(outputPath)
FfmpegCommand(j) ==
    [inputs       |-> <<FilelistPath(session[j]), AudioPath(session[j])>>,
     inputOptions |-> <<"-f", "concat", "-safe", "0">>,
     codec        |-> [video |-> "libx264", audio |-> "aac", pix_fmt |-> "yuv420p"],
     options      |-> OutputOptions(j),
     vf           |-> VideoFilter(j),
     movflags     |-> "+faststart",
     output       |-> OutputPath(session[j])]

-----------------------------------------------------------------------------
(* Results and failures *)

\* videoBuffer.toString('base64').length
Base64Length(n) ==
    4 * ((n + 2) \div 3)

\* A result whose size is the length of the encoded text
RenderResultEncodedSize(n) ==
    [kind |-> "result", video |-> [base64Of |-> n], contentType |-> "video/mp4",
     size |-> Base64Length(n)]

\* { video: videoBase64, contentType: 'video/mp4', size: videoBuffer.length }
RenderResult(n) ==
    [kind |-> "result", video |-> [base64Of |-> n], contentType |-> "video/mp4",
     size |-> n]

\* What the caller sees of a thrown error: the controller's HttpException for a
\* request by id, the error itself for a direct call
Failure(j, msg) ==
    IF inbox[j].kind = "byId"
    THEN [kind |-> "error", status |-> INTERNAL_SERVER_ERROR,
          message |-> IF msg = "" THEN "Unknown error" ELSE msg]
    ELSE [kind |-> "throw", message |-> msg]

Fails(j, stage, msg) ==
    /\ pc' = [pc EXCEPT ![j] = "failed"]
    /\ exitPath' = [exitPath EXCEPT ![j] = stage]
    /\ outcomes' = [outcomes EXCEPT ![j] = Append(@, Failure(j, msg))]

Continues(j, next) ==
    /\ pc' = [pc EXCEPT ![j] = next]
    /\ UNCHANGED <<exitPath, outcomes>>

Touch(j, ops) ==
    touched' = [touched EXCEPT ![j] = @ \cup ops]

\* File contents
Bytes == [kind |-> "bytes", lines |-> <<>>, len |-> 1]

Partial == [kind |-> "partial", lines |-> <<>>, len |-> 0]

ManifestFile(lines) == [kind |-> "manifest", lines |-> lines, len |-> Len(lines)]

VideoFile(n) == [kind |-> "video", lines |-> <<>>, len |-> n]

\* writeFile(path, content)
WriteFile(fs, p, content) ==
    [x \in DOMAIN fs \cup {FileId(p)} |-> IF x = FileId(p) THEN content ELSE fs[x]]

\* unlink of every path in the set
Unlink(fs, ps) ==
    [x \in DOMAIN fs \ {FileId(p) : p \in ps} |-> fs[x]]

\* A failed write may leave the file it opened behind
AfterFailedWrite(fs, p, cause) ==
    IF cause = "write" THEN {fs, WriteFile(fs, p, Partial)} ELSE {fs}

-----------------------------------------------------------------------------
(* Decisions of the pipeline *)

\* An identifier generator that may repeat itself
Uuidv4Any(usedIds) ==
    SessionIds

\* uuidv4(): an identifier never handed out before. Identifiers are only ever
\* compared for equality, so the model takes the least unused one.
Uuidv4(usedIds) ==
    {s \in SessionIds \ usedIds : \A t \in SessionIds \ usedIds : s <= t}

\* An audio failure absorbed like an image failure
AudioNeverFatal(outcome) ==
    FALSE

\* `await this.downloadFile(audioUrl, ...)` outside any inner try: a failure
\* reaches the outer catch
AudioFatal(outcome) ==
    outcome # "ok"

\* The path recorded whether or not the download succeeded
RecordImageAlways(arr, v, i, path, ok) ==
    IF v = "parallel" THEN ArrAssign(arr, i, path) ELSE ArrPush(arr, path)

\* The path pushed in completion order by both versions
RecordImagePush(arr, v, i, path, ok) ==
    IF ok THEN ArrPush(arr, path) ELSE arr

\* imagePaths after the fetch of image i resolved: `imagePaths[i] = imagePath`
\* (parallel) or `imagePaths.push(imagePath)` (sequential) on success, nothing
\* on failure
RecordImage(arr, v, i, path, ok) ==
    IF ~ok THEN arr
    ELSE IF v = "parallel" THEN ArrAssign(arr, i, path)
    ELSE ArrPush(arr, path)

\* The array as it is, holes included
ImagePathsWithHoles(arr, v) ==
    arr

\* validImagePaths (parallel) or imagePaths (sequential) at the check
ValidImagePaths(arr, v) ==
    IF v = "parallel" THEN FilterBoolean(arr) ELSE arr

-----------------------------------------------------------------------------
(* Actions *)

\* The fallback for a missing value only (??)
DurationIfMissing(col) ==
    IF col = <<>> THEN FallbackDurationMs ELSE col[1]

\* videoData.duration || 30: the fallback for every falsy value, null and 0
DurationOrFallback(col) ==
    IF col = <<>> \/ col[1] = 0 THEN FallbackDurationMs ELSE col[1]

\* renderVideoById up to its query: draws the session identifier, checks the client
StartById(j) ==
    /\ pc[j] = "idle"
    /\ inbox[j].kind = "byId"
    /\ \E sid \in Uuidv4(used) :
        /\ session' = [session EXCEPT ![j] = sid]
        /\ used' = used \cup {sid}
    /\ IF supabase
       THEN Continues(j, "query")
       ELSE Fails(j, "store", "Supabase not configured")
    /\ UNCHANGED <<fetched, produced, sep, supabase, files, dirs, video_data, inbox, videoData, args,
                   audioSt, fetchSt, completed, imagePaths, validImagePaths,
                   encoder, videoBuffer, cleanupCount, touched>>

\* The query's answer, then renderVideo up to its first await
QueryResult(j) ==
    /\ pc[j] = "query"
    /\ \/ /\ video_data[inbox[j].videoId] # <<>>
          /\ LET row == video_data[inbox[j].videoId][1]
             IN  /\ videoData' = [videoData EXCEPT ![j] = <<row>>]
                 /\ args' = [args EXCEPT ![j] =
                        [audioUrl |-> row.audio_file_url,
                         images   |-> IF row.image_list = <<>> THEN <<>>
                                      ELSE row.image_list[1],
                         duration |-> DurationOrFallback(row.duration)]]
          /\ Continues(j, IF session[j] \in dirs THEN "audio" ELSE "mkdir")
       \/ /\ Fails(j, "store", "Video not found: " \o inbox[j].videoId)
          /\ UNCHANGED <<videoData, args>>
    /\ UNCHANGED <<fetched, produced, sep, supabase, used, files, dirs, video_data, inbox, session,
                   audioSt, fetchSt, completed, imagePaths, validImagePaths,
                   encoder, videoBuffer, cleanupCount, touched>>

\* A direct call of renderVideo without a session identifier, up to its first await
StartExplicit(j) ==
    /\ pc[j] = "idle"
    /\ inbox[j].kind = "explicit"
    /\ \E sid \in Uuidv4(used) :
        /\ session' = [session EXCEPT ![j] = sid]
        /\ used' = used \cup {sid}
        /\ Continues(j, IF sid \in dirs THEN "audio" ELSE "mkdir")
    /\ args' = [args EXCEPT ![j] =
           [audioUrl |-> inbox[j].audioUrl, images |-> inbox[j].images,
            duration |-> inbox[j].duration]]
    /\ UNCHANGED <<fetched, produced, sep, supabase, files, dirs, video_data, inbox, videoData,
                   audioSt, fetchSt, completed, imagePaths, validImagePaths,
                   encoder, videoBuffer, cleanupCount, touched>>

\* await mkdir(tempDir, { recursive: true })
Mkdir(j) ==
    /\ pc[j] = "mkdir"
    /\ \/ /\ dirs' = dirs \cup {session[j]}
          /\ Touch(j, {<<"mkdir", FileId(TempDir(session[j]))>>})
          /\ Continues(j, "audio")
       \/ /\ Fails(j, "mkdir", "EACCES: permission denied, mkdir")
          /\ UNCHANGED <<dirs, touched>>
    /\ UNCHANGED <<fetched, produced, sep, supabase, used, files, video_data, inbox, videoData, args,
                   session, audioSt, fetchSt, completed, imagePaths,
                   validImagePaths, encoder, videoBuffer, cleanupCount>>

\* The audio download; on success the image downloads are started
AudioFetch(j) ==
    /\ pc[j] = "audio"
    /\ \E r \in DownloadRuns(args[j].audioUrl) : LET o == r.outcome IN
        /\ fetched' = [fetched EXCEPT ![j] =
               IF r.network THEN @ \cup {args[j].audioUrl} ELSE @]
        /\ audioSt' = [audioSt EXCEPT ![j] = IF o = "ok" THEN "ok" ELSE "failed"]
        /\ \E fs \in (IF o = "ok"
                      THEN {WriteFile(files, AudioPath(session[j]), Bytes)}
                      ELSE AfterFailedWrite(files, AudioPath(session[j]), o)) :
              files' = fs
        /\ Touch(j, IF o \in {"ok", "write"}
                    THEN {<<"write", FileId(AudioPath(session[j]))>>} ELSE {})
        /\ IF AudioFatal(o)
           THEN /\ Fails(j, "audio", DownloadErrorMessage(o, Variant(j)))
                /\ UNCHANGED fetchSt
           ELSE /\ Continues(j, "images")
                /\ fetchSt' = [fetchSt EXCEPT ![j] =
                       [k \in 1 .. Len(args[j].images) |->
                           IF Variant(j) = "parallel" THEN "inflight" ELSE "pending"]]
    /\ UNCHANGED <<produced, sep, supabase, used, dirs, video_data, inbox, videoData, args,
                   session, completed, imagePaths, validImagePaths, encoder,
                   videoBuffer, cleanupCount>>

\* The download of image i (0-based) resolves. The parallel version has all of
\* them in flight at once; the sequential one runs them in index order.
ImageFetch(j, i) ==
    /\ pc[j] = "images"
    /\ i + 1 \in DOMAIN fetchSt[j]
    /\ IF Variant(j) = "parallel"
       THEN fetchSt[j][i + 1] = "inflight"
       ELSE /\ fetchSt[j][i + 1] = "pending"
            /\ \A k \in 1 .. i : fetchSt[j][k] # "pending"
    /\ \E r \in DownloadRuns(args[j].images[i + 1]) : LET o == r.outcome IN
        /\ fetched' = [fetched EXCEPT ![j] =
               IF r.network THEN @ \cup {args[j].images[i + 1]} ELSE @]
        /\ fetchSt' = [fetchSt EXCEPT ![j][i + 1] = IF o = "ok" THEN "ok" ELSE "failed"]
        /\ \E fs \in (IF o = "ok"
                      THEN {WriteFile(files, ImagePath(session[j], i), Bytes)}
                      ELSE AfterFailedWrite(files, ImagePath(session[j], i), o)) :
              files' = fs
        /\ Touch(j, IF o \in {"ok", "write"}
                    THEN {<<"write", FileId(ImagePath(session[j], i))>>} ELSE {})
        /\ imagePaths' = [imagePaths EXCEPT ![j] =
               RecordImage(@, Variant(j), i, ImagePath(session[j], i), o = "ok")]
    /\ completed' = [completed EXCEPT ![j] = Append(@, i)]
    /\ UNCHANGED <<produced, sep, supabase, used, dirs, video_data, inbox, pc, videoData, args,
                   session, audioSt, validImagePaths, encoder, videoBuffer,
                   cleanupCount, exitPath, outcomes>>

\* A join that waits for nothing
SettledOrNot(st) ==
    TRUE

\* await Promise.all(...) (parallel), the end of the for loop (sequential):
\* every download has resolved
AllSettled(st) ==
    \A k \in DOMAIN st : st[k] \in {"ok", "failed"}

\* Every download has resolved: the images that made it are counted
JoinImages(j) ==
    /\ pc[j] = "images"
    /\ AllSettled(fetchSt[j])
    /\ LET valid == ValidImagePaths(imagePaths[j], Variant(j))
       IN  /\ validImagePaths' = [validImagePaths EXCEPT ![j] = valid]
           /\ IF Len(valid) = 0
              THEN Fails(j, "images", NoImagesMsg)
              ELSE Continues(j, "manifest")
    /\ UNCHANGED <<fetched, produced, sep, supabase, used, files, dirs, video_data, inbox, videoData,
                   args, session, audioSt, fetchSt, completed, imagePaths, encoder,
                   videoBuffer, cleanupCount, touched>>

\* The durations toFixed(3) can print for the job
PrintedDurations(j) ==
    ToFixed3(ImageDuration(args[j].duration, Len(validImagePaths[j]),
                           Len(args[j].images)))

\* What the encoder process opens for an invocation
EncoderTouches(j, lines) ==
    {<<"encode", FileId(p)>> :
        p \in {FilelistPath(session[j]), AudioPath(session[j]), OutputPath(session[j])}
              \cup {lines[k].path : k \in {m \in DOMAIN lines : lines[m].kind = "file"}}}

\* await writeFile(filelistPath, filelistContent), then ffmpeg()...run()
WriteManifest(j) ==
    /\ pc[j] = "manifest"
    /\ \/ /\ \E ms \in PrintedDurations(j) :
                LET lines == ManifestLines(validImagePaths[j], ms)
                IN  /\ files' = WriteFile(files, FilelistPath(session[j]),
                                          ManifestFile(lines))
                    /\ Touch(j, {<<"write", FileId(FilelistPath(session[j]))>>}
                                \cup EncoderTouches(j, lines))
          /\ encoder' = [encoder EXCEPT ![j] = Append(@, FfmpegCommand(j))]
          /\ Continues(j, "encoding")
       \/ /\ \E fs \in AfterFailedWrite(files, FilelistPath(session[j]), "write") :
                files' = fs
          /\ Touch(j, {<<"write", FileId(FilelistPath(session[j]))>>})
          /\ Fails(j, "manifest", DownloadErrorMessage("write", Variant(j)))
          /\ UNCHANGED encoder
    /\ UNCHANGED <<fetched, produced, sep, supabase, used, dirs, video_data, inbox, videoData, args,
                   session, audioSt, fetchSt, completed, imagePaths,
                   validImagePaths, videoBuffer, cleanupCount>>

\* ffmpeg emits 'end': the output exists, readFile(outputPath) is started
EncodeEnd(j) ==
    /\ pc[j] = "encoding"
    /\ \E n \in 1 .. MaxOutputBytes :
        /\ files' = WriteFile(files, OutputPath(session[j]), VideoFile(n))
        /\ produced' = [produced EXCEPT ![j] = <<n>>]
    /\ Continues(j, "read")
    /\ UNCHANGED <<fetched, sep, supabase, used, dirs, video_data, inbox, videoData, args,
                   session, audioSt, fetchSt, completed, imagePaths,
                   validImagePaths, encoder, videoBuffer, cleanupCount, touched>>

\* ffmpeg emits 'error': the promise rejects
EncodeError(j) ==
    /\ pc[j] = "encoding"
    /\ \E fs \in {files, WriteFile(files, OutputPath(session[j]), Partial)} :
          files' = fs
    /\ \E msg \in {"ffmpeg exited with code 1", ""} :
          Fails(j, "encode", msg)
    /\ UNCHANGED <<fetched, produced, sep, supabase, used, dirs, video_data, inbox, videoData, args,
                   session, audioSt, fetchSt, completed, imagePaths,
                   validImagePaths, encoder, videoBuffer, cleanupCount, touched>>

\* await readFile(outputPath); on success the cleanup block is entered
ReadOutput(j) ==
    /\ pc[j] = "read"
    /\ \/ /\ FileId(OutputPath(session[j])) \in DOMAIN files
          /\ videoBuffer' = [videoBuffer EXCEPT ![j] =
                 <<files[FileId(OutputPath(session[j]))].len>>]
          /\ cleanupCount' = [cleanupCount EXCEPT ![j] = @ + 1]
          /\ Touch(j, {<<"read", FileId(OutputPath(session[j]))>>})
          /\ Continues(j, "cleanup")
       \/ /\ Fails(j, "read", "EIO: i/o error, read")
          /\ UNCHANGED <<videoBuffer, cleanupCount, touched>>
    /\ UNCHANGED <<fetched, produced, sep, supabase, used, files, dirs, video_data, inbox, videoData,
                   args, session, audioSt, fetchSt, completed, imagePaths,
                   validImagePaths, encoder>>

\* The order in which the cleanup block unlinks
CleanupOrder(j) ==
    <<AudioPath(session[j]), FilelistPath(session[j]), OutputPath(session[j])>>
        \o validImagePaths[j]

\* A cleanup whose unlink error reaches the outer catch
CleanupErrorThrown(unlinkFailed) ==
    unlinkFailed

\* try { unlink ... } catch (cleanupError) { log }: the error stops there
CleanupEscalates(unlinkFailed) ==
    FALSE

\* The cleanup block and the return: the first k unlinks succeed; if one is
\* left, it fails, which ends the block (the error is logged)
Cleanup(j) ==
    /\ pc[j] = "cleanup"
    /\ \E k \in 0 .. Len(CleanupOrder(j)) :
        /\ \A m \in 1 .. k : FileId(CleanupOrder(j)[m]) \in DOMAIN files
        /\ files' = Unlink(files, {CleanupOrder(j)[m] : m \in 1 .. k})
        /\ Touch(j, {<<"unlink", FileId(CleanupOrder(j)[m])>> :
                        m \in 1 .. (IF k < Len(CleanupOrder(j)) THEN k + 1 ELSE k)})
        /\ IF CleanupEscalates(k < Len(CleanupOrder(j)))
           THEN Fails(j, "cleanup", "EPERM: operation not permitted, unlink")
           ELSE /\ pc' = [pc EXCEPT ![j] = "done"]
                /\ exitPath' = [exitPath EXCEPT ![j] = "normal"]
                /\ outcomes' = [outcomes EXCEPT ![j] =
                       Append(@, RenderResult(videoBuffer[j][1]))]
    /\ UNCHANGED <<fetched, produced, sep, supabase, used, dirs, video_data, inbox, videoData, args,
                   session, audioSt, fetchSt, completed, imagePaths,
                   validImagePaths, encoder, videoBuffer, cleanupCount>>

-----------------------------------------------------------------------------
(* Specifications *)

NoArgs == [audioUrl |-> <<>>, images |-> <<>>, duration |-> 0]

InitJobs(n) ==
    /\ used = {}
    /\ files = <<>>
    /\ dirs = {}
    /\ pc = [j \in 1 .. n |-> "idle"]
    /\ videoData = [j \in 1 .. n |-> <<>>]
    /\ args = [j \in 1 .. n |-> NoArgs]
    /\ session = [j \in 1 .. n |-> 0]
    /\ audioSt = [j \in 1 .. n |-> "none"]
    /\ fetchSt = [j \in 1 .. n |-> <<>>]
    /\ completed = [j \in 1 .. n |-> <<>>]
    /\ imagePaths = [j \in 1 .. n |-> <<>>]
    /\ validImagePaths = [j \in 1 .. n |-> <<>>]
    /\ encoder = [j \in 1 .. n |-> <<>>]
    /\ produced = [j \in 1 .. n |-> <<>>]
    /\ videoBuffer = [j \in 1 .. n |-> <<>>]
    /\ cleanupCount = [j \in 1 .. n |-> 0]
    /\ exitPath = [j \in 1 .. n |-> "none"]
    /\ outcomes = [j \in 1 .. n |-> <<>>]
    /\ touched = [j \in 1 .. n |-> {}]
    /\ fetched = [j \in 1 .. n |-> {}]

\* No render request at all
NoPipeline ==
    /\ InitJobs(0)
    /\ supabase = FALSE
    /\ video_data = [v \in VideoIds |-> <<>>]
    /\ inbox = <<>>

\* The formatter and the side-by-side run are not in use
NoFormatter ==
    fmt = [stage |-> "off", m |-> 0, text |-> <<>>]

NoComparison ==
    eq = [stage |-> "off", ok |-> <<>>, duration |-> 0, parSt |-> <<>>,
          order |-> <<>>, parArr |-> <<>>, seqNext |-> 0, seqArr |-> <<>>,
          par |-> <<>>, sq |-> <<>>]

\* n webhook calls about to be made
InitHooks(n) ==
    /\ users = usersInit
    /\ hookPc = [h \in 1 .. n |-> "idle"]
    /\ hookUser = [h \in 1 .. n |-> <<>>]
    /\ hookLog = [h \in 1 .. n |-> <<>>]
    /\ hookResult = [h \in 1 .. n |-> <<>>]

\* No webhook call at all
NoHooks ==
    /\ usersInit = <<>>
    /\ hookPayload = <<>>
    /\ InitHooks(0)

\* One request: by id against any content of the table, or direct with any
\* assets
Init ==
    /\ InitJobs(1)
    /\ NoFormatter
    /\ NoComparison
    /\ NoHooks
    /\ sep \in {"/", "\\"}
    /\ \/ /\ inbox \in [1 .. 1 -> ByIdRequests]
          /\ supabase \in BOOLEAN
          /\ video_data \in [VideoIds -> {<<>>} \cup {<<r>> : r \in VideoRows}]
       \/ /\ inbox \in [1 .. 1 -> ExplicitRequests]
          /\ supabase = FALSE
          /\ video_data = [v \in VideoIds |-> <<>>]

\* MaxJobs concurrent requests over one stored video with a single image
ConcRow ==
    [audio_file_url |-> DataUrlOk, image_list |-> << <<RemoteUrl>> >>,
     duration |-> <<1000>>, captions |-> <<>>, show_captions |-> FALSE]

ConcExplicit(v) ==
    [kind |-> "explicit", variant |-> v, audioUrl |-> DataUrlOk,
     images |-> <<RemoteUrl>>, duration |-> 1000]

\* The requests of the concurrent jobs: all by id (the controller's only
\* route), or one entry point after the other
ConcInboxes ==
    {[j \in 1 .. MaxJobs |-> [kind |-> "byId", videoId |-> "v1"]],
     [j \in 1 .. MaxJobs |->
        CASE j % 3 = 1 -> ConcExplicit("parallel")
          [] j % 3 = 2 -> ConcExplicit("sequential")
          [] OTHER     -> [kind |-> "byId", videoId |-> "v1"]]}

InitConc ==
    /\ InitJobs(MaxJobs)
    /\ NoFormatter
    /\ NoComparison
    /\ NoHooks
    /\ sep = "/"
    /\ supabase = TRUE
    /\ video_data = [v \in VideoIds |-> <<ConcRow>>]
    /\ inbox \in ConcInboxes

Step(j) ==
    \/ StartById(j)
    \/ QueryResult(j)
    \/ StartExplicit(j)
    \/ Mkdir(j)
    \/ AudioFetch(j)
    \/ \E i \in 0 .. MaxImages : ImageFetch(j, i)
    \/ JoinImages(j)
    \/ WriteManifest(j)
    \/ EncodeEnd(j)
    \/ EncodeError(j)
    \/ ReadOutput(j)
    \/ Cleanup(j)

Next ==
    /\ \E j \in Jobs : Step(j)
    /\ UNCHANGED <<fmt, eq, hookVars>>

Spec ==
    Init /\ [][Next]_vars

SpecConc ==
    InitConc /\ [][Next]_vars

-----------------------------------------------------------------------------
(* The subtitle time formatter *)

\* String(d) for one decimal digit
DigitChar(d) ==
    ToString(d)

\* String(n), as its characters
RECURSIVE Digits(_)
Digits(n) ==
    IF n < 10 THEN <<DigitChar(n)>>
    ELSE Append(Digits(n \div 10), DigitChar(n % 10))

\* str.padStart(n, ch): never shortens
RECURSIVE PadStart(_, _, _)
PadStart(str, n, ch) ==
    IF Len(str) >= n THEN str ELSE PadStart(<<ch>> \o str, n, ch)

\* A formatter whose minutes are not reduced to the hour
FormatTimeMinutesOfDay(m) ==
    LET totalSeconds == m \div 1000
        hours        == totalSeconds \div 3600
        minutes      == totalSeconds \div 60
        seconds      == totalSeconds % 60
        ms           == m % 1000
    IN  PadStart(Digits(hours), 2, "0") \o <<":">> \o
        PadStart(Digits(minutes), 2, "0") \o <<":">> \o
        PadStart(Digits(seconds), 2, "0") \o <<",">> \o
        PadStart(Digits(ms), 3, "0")

\* Milliseconds to HH:MM:SS,mmm
FormatTime(m) ==
    LET totalSeconds == m \div 1000
        hours        == totalSeconds \div 3600
        minutes      == (totalSeconds % 3600) \div 60
        seconds      == totalSeconds % 60
        ms           == m % 1000
    IN  PadStart(Digits(hours), 2, "0") \o <<":">> \o
        PadStart(Digits(minutes), 2, "0") \o <<":">> \o
        PadStart(Digits(seconds), 2, "0") \o <<",">> \o
        PadStart(Digits(ms), 3, "0")

\* Offsets handed to the formatter: the borders of every field up to
\* FmtMaxHours hours, and an offset of a hundred hours
FmtInputs ==
    {((h * 60 + mi) * 60 + sec) * 1000 + ms :
        h \in 0 .. FmtMaxHours, mi \in {0, 1, 59}, sec \in {0, 9, 10, 59},
        ms \in {0, 1, 9, 10, 99, 100, 500, 999}}
    \cup {1500, 3661000, 359999999, 360000000}

InitFmt ==
    /\ NoPipeline
    /\ sep = "/"
    /\ NoComparison
    /\ NoHooks
    /\ fmt \in [stage : {"input"}, m : FmtInputs, text : {<<>>}]

Format ==
    /\ fmt.stage = "input"
    /\ fmt' = [fmt EXCEPT !.stage = "done", !.text = FormatTime(fmt.m)]
    /\ UNCHANGED <<pipeVars, eq, hookVars>>

NextFmt ==
    Format

SpecFmt ==
    InitFmt /\ [][NextFmt]_vars

-----------------------------------------------------------------------------
(* The image bookkeeping of the two versions, on the same downloads *)

\* The check and the share of each image, from the array a version holds when
\* its downloads are over: the valid paths, whether the job fails for want of
\* images, and duration / length otherwise
Timeline(arr, v, duration) ==
    LET valid == ValidImagePaths(arr, v)
    IN  [valid   |-> valid,
         message |-> IF Len(valid) = 0 THEN NoImagesMsg ELSE "",
         imageDuration |->
             IF Len(valid) = 0 THEN <<>>
             ELSE <<ImageDuration(duration, Len(valid), Len(arr))>>]

\* Any image list, any outcome of each download, any duration
InitEq ==
    /\ NoPipeline
    /\ sep \in {"/", "\\"}
    /\ NoFormatter
    /\ NoHooks
    /\ \E ok \in SeqsUpTo(BOOLEAN, MaxImages) : \E d \in Durations :
          eq = [stage |-> "run", ok |-> ok, duration |-> d,
                parSt |-> [k \in 1 .. Len(ok) |-> "inflight"], order |-> <<>>,
                parArr |-> <<>>, seqNext |-> 0, seqArr |-> <<>>,
                par |-> <<>>, sq |-> <<>>]

\* Parallel version: the download of image i resolves, in any order
EqParallelSettle(i) ==
    /\ eq.stage = "run"
    /\ i + 1 \in DOMAIN eq.parSt
    /\ eq.parSt[i + 1] = "inflight"
    /\ eq' = [eq EXCEPT
           !.parSt[i + 1] = IF eq.ok[i + 1] THEN "ok" ELSE "failed",
           !.order = Append(@, i),
           !.parArr = RecordImage(@, "parallel", i, ImagePath(1, i), eq.ok[i + 1])]
    /\ UNCHANGED <<pipeVars, fmt, hookVars>>

\* Sequential version: the next iteration of the for loop
EqSequentialStep ==
    /\ eq.stage = "run"
    /\ eq.seqNext < Len(eq.ok)
    /\ eq' = [eq EXCEPT
           !.seqNext = @ + 1,
           !.seqArr = RecordImage(@, "sequential", eq.seqNext,
                                  ImagePath(1, eq.seqNext), eq.ok[eq.seqNext + 1])]
    /\ UNCHANGED <<pipeVars, fmt, hookVars>>

\* Both versions are past their downloads: each makes its check and computes
\* its share
EqTimelines ==
    /\ eq.stage = "run"
    /\ AllSettled(eq.parSt)
    /\ eq.seqNext = Len(eq.ok)
    /\ eq' = [eq EXCEPT
           !.stage = "done",
           !.par = <<Timeline(eq.parArr, "parallel", eq.duration)>>,
           !.sq = <<Timeline(eq.seqArr, "sequential", eq.duration)>>]
    /\ UNCHANGED <<pipeVars, fmt, hookVars>>

NextEq ==
    \/ \E i \in 0 .. MaxImages : EqParallelSettle(i)
    \/ EqSequentialStep
    \/ EqTimelines

SpecEq ==
    InitEq /\ [][NextEq]_vars

-----------------------------------------------------------------------------
(* The Whop webhook *)

Hooks == DOMAIN hookPc

\* a || b on strings: the empty string (like undefined) is falsy
Or(a, b) ==
    IF a # "" THEN a ELSE b

\* payload.data || payload: the object the user and plan are looked up in
Data(payload) ==
    IF payload.data # <<>> THEN payload.data[1]
    ELSE [user_id |-> payload.user_id, user |-> payload.user,
          membership |-> payload.membership, plan_id |-> payload.plan_id]

\* payload.action || payload.type
ActionOf(payload) ==
    Or(payload.action, payload.type)

\* data.user_id || data.user?.id || data.membership?.user_id
UserIdOf(data) ==
    Or(data.user_id,
       Or(IF data.user = <<>> THEN "" ELSE data.user[1].id,
          IF data.membership = <<>> THEN "" ELSE data.membership[1].user_id))

\* data.plan_id || data.membership?.plan_id || null
PlanOf(data) ==
    LET plan == Or(data.plan_id,
                   IF data.membership = <<>> THEN "" ELSE data.membership[1].plan_id)
    IN  IF plan = "" THEN <<>> ELSE <<plan>>

\* A switch whose default treats the action as a deactivation
BranchDefaultDeactivates(action) ==
    CASE action \in {"membership_activated", "membership.activated",
                     "membership.went_valid"} -> "activate"
      [] action \in {"payment_succeeded", "payment.succeeded"} -> "select"
      [] OTHER -> "deactivate"

\* switch (action)
Branch(action) ==
    CASE action \in {"membership_activated", "membership.activated",
                     "membership.went_valid"} -> "activate"
      [] action \in {"membership_deactivated", "membership.deactivated",
                     "membership.went_invalid"} -> "deactivate"
      [] action \in {"payment_succeeded", "payment.succeeded"} -> "select"
      [] OTHER -> "default"

\* .update(cols).eq('whop_user_id', userId): the columns named, on the rows
\* that match
Update(table, userId, cols) ==
    [u \in DOMAIN table |->
        IF u = userId
        THEN [c \in DOMAIN table[u] |->
                 IF c \in DOMAIN cols THEN cols[c] ELSE table[u][c]]
        ELSE table[u]]

\* An operation of a call on the users table
DbOp(op, userId, ok) ==
    [op |-> op, userId |-> userId, ok |-> ok]

\* return { success: true, action, userId }
HookSuccess(h) ==
    [kind |-> "result", success |-> TRUE, message |-> "",
     action |-> ActionOf(hookPayload[h]), userId |-> UserIdOf(Data(hookPayload[h]))]

\* throw new Error(message)
HookError(h, message) ==
    [kind |-> "throw", success |-> FALSE, message |-> message,
     action |-> ActionOf(hookPayload[h]), userId |-> UserIdOf(Data(hookPayload[h]))]

HookReturns(h) ==
    /\ hookPc' = [hookPc EXCEPT ![h] = "done"]
    /\ hookResult' = [hookResult EXCEPT ![h] = <<HookSuccess(h)>>]

HookThrows(h, message) ==
    /\ hookPc' = [hookPc EXCEPT ![h] = "failed"]
    /\ hookResult' = [hookResult EXCEPT ![h] = <<HookError(h, message)>>]

HookLogs(h, op, ok) ==
    hookLog' = [hookLog EXCEPT ![h] =
                   Append(@, DbOp(op, UserIdOf(Data(hookPayload[h])), ok))]

\* Rows of the users table
UserRows ==
    {[subscription_status |-> "inactive", subscription_plan |-> <<>>, credits |-> 0],
     [subscription_status |-> "active", subscription_plan |-> <<"basic">>,
      credits |-> 25]}

\* The bodies Whop posts: the user under user_id (with plan_id), under user.id,
\* or under membership (with its plan_id)
HookBody(where, u) ==
    [user_id    |-> IF where = "user_id" THEN u ELSE "",
     user       |-> IF where = "user.id" THEN <<[id |-> u]>> ELSE <<>>,
     membership |-> IF where = "membership"
                    THEN <<[user_id |-> u, plan_id |-> "pro"]>> ELSE <<>>,
     plan_id    |-> IF where = "user_id" /\ u # "" THEN "pro" ELSE ""]

\* A payload with its fields at top level, named by `action`
FlatPayload(name, body) ==
    [action |-> name, type |-> "", data |-> <<>>, user_id |-> body.user_id,
     user |-> body.user, membership |-> body.membership, plan_id |-> body.plan_id]

\* A payload with its fields under `data`, named by `type`
WrappedPayload(name, body) ==
    [action |-> "", type |-> name, data |-> <<body>>, user_id |-> "",
     user |-> <<>>, membership |-> <<>>, plan_id |-> ""]

\* Payloads: every branch of the switch, an unknown action and no action at
\* all, for an existing user, an unknown one and none
HookPayloads ==
    {FlatPayload(name, HookBody("user_id", u)) :
        name \in {"membership.went_valid", "membership_deactivated",
                  "payment_succeeded", "refund.created", ""},
        u \in {"u1", "u2", ""}}
    \cup
    {WrappedPayload(name, HookBody(where, "u1")) :
        name \in {"membership.activated", "payment.succeeded"},
        where \in {"user.id", "membership"}}

InitHook ==
    /\ NoPipeline
    /\ sep = "/"
    /\ NoFormatter
    /\ NoComparison
    /\ usersInit \in [{"u1"} -> UserRows]
    /\ hookPayload \in [1 .. MaxHooks -> HookPayloads]
    /\ InitHooks(MaxHooks)

\* handleWhopWebhook up to its first await
HandleWhopWebhook(h) ==
    /\ hookPc[h] = "idle"
    /\ IF UserIdOf(Data(hookPayload[h])) = ""
       THEN HookThrows(h, "Missing user_id")
       ELSE IF Branch(ActionOf(hookPayload[h])) = "default"
       THEN HookReturns(h)
       ELSE /\ hookPc' = [hookPc EXCEPT ![h] = Branch(ActionOf(hookPayload[h]))]
            /\ UNCHANGED hookResult
    /\ UNCHANGED <<pipeVars, fmt, eq, users, usersInit, hookPayload, hookUser, hookLog>>

\* The update of an activation or a deactivation answers
MembershipUpdate(h, cols) ==
    /\ \E ok \in BOOLEAN :
        /\ HookLogs(h, "update", ok)
        /\ IF ok
           THEN /\ users' = Update(users, UserIdOf(Data(hookPayload[h])), cols)
                /\ HookReturns(h)
           ELSE /\ UNCHANGED users
                /\ HookThrows(h, "Database error")
    /\ UNCHANGED <<pipeVars, fmt, eq, usersInit, hookPayload, hookUser>>

Activate(h) ==
    /\ hookPc[h] = "activate"
    /\ MembershipUpdate(h, [subscription_status |-> "active",
                            subscription_plan |-> PlanOf(Data(hookPayload[h]))])

Deactivate(h) ==
    /\ hookPc[h] = "deactivate"
    /\ MembershipUpdate(h, [subscription_status |-> "inactive",
                            subscription_plan |-> <<>>])

\* select('credits').eq(...).single() answers: the row, or an error (always
\* when no row matches), which is logged and leaves user null
SelectCredits(h) ==
    /\ hookPc[h] = "select"
    /\ \E ok \in {b \in BOOLEAN : b => UserIdOf(Data(hookPayload[h])) \in DOMAIN users} :
        /\ HookLogs(h, "select", ok)
        /\ IF ok
           THEN /\ hookUser' = [hookUser EXCEPT ![h] =
                       <<[credits |-> users[UserIdOf(Data(hookPayload[h]))].credits]>>]
                /\ hookPc' = [hookPc EXCEPT ![h] = "credit"]
                /\ UNCHANGED hookResult
           ELSE /\ HookReturns(h)
                /\ UNCHANGED hookUser
    /\ UNCHANGED <<pipeVars, fmt, eq, users, usersInit, hookPayload>>

\* update({ credits: user.credits + 100 }) answers
AddCredits(h) ==
    /\ hookPc[h] = "credit"
    /\ \E ok \in BOOLEAN :
        /\ HookLogs(h, "update", ok)
        /\ IF ok
           THEN /\ users' = Update(users, UserIdOf(Data(hookPayload[h])),
                                   [credits |-> hookUser[h][1].credits + CreditsPerPayment])
                /\ HookReturns(h)
           ELSE /\ UNCHANGED users
                /\ HookThrows(h, "Database error")
    /\ UNCHANGED <<pipeVars, fmt, eq, usersInit, hookPayload, hookUser>>

HookStep(h) ==
    \/ HandleWhopWebhook(h)
    \/ Activate(h)
    \/ Deactivate(h)
    \/ SelectCredits(h)
    \/ AddCredits(h)

NextHook ==
    \E h \in Hooks : HookStep(h)

SpecHook ==
    InitHook /\ [][NextHook]_vars

-----------------------------------------------------------------------------
(* Vocabulary of the properties *)

Terminal(j) == pc[j] \in {"done", "failed"}

\* The files in the working directory of job j
JobFiles(j) ==
    {f \in DOMAIN files : f[1] = session[j]}

\* 1-based positions of the images whose download succeeded
OkImages(j) ==
    {k \in DOMAIN fetchSt[j] : fetchSt[j][k] = "ok"}

FailedImages(j) ==
    {k \in DOMAIN fetchSt[j] : fetchSt[j][k] = "failed"}

\* The manifest is on disk and not yet unlinked
ManifestOnDisk(j) ==
    /\ pc[j] \in {"encoding", "read", "cleanup"}
    /\ FileId(FilelistPath(session[j])) \in DOMAIN files
    /\ files[FileId(FilelistPath(session[j]))].kind = "manifest"

Manifest(j) ==
    files[FileId(FilelistPath(session[j]))].lines

FilePositions(lines) ==
    {k \in DOMAIN lines : lines[k].kind = "file"}

DurationPositions(lines) ==
    {k \in DOMAIN lines : lines[k].kind = "duration"}

\* The manifest's spelling of the path of input image k (1-based)
ListedPath(j, k) ==
    [sep |-> "/", session |-> session[j],
     name |-> "image_" \o PadStart3(k - 1) \o ".png"]

-----------------------------------------------------------------------------
(* C1 *)

\* C1: once renderVideo has returned a result or failed at the encode stage, the
\* working directory of the job holds none of the files the job created.
C1_NoResidualFiles ==
    \A j \in Jobs :
        (pc[j] = "done" \/ (pc[j] = "failed" /\ exitPath[j] = "encode"))
            => JobFiles(j) = {}

(* C2 *)

\* C2: on every exit path of a render job (normal completion, audio, images,
\* manifest, encode or read failure) the cleanup block has run exactly once
\* when the job has ended.
C2_CleanupExactlyOnce ==
    \A j \in Jobs :
        (Terminal(j) /\ exitPath[j] \in {"normal", "audio", "images", "manifest",
                                         "encode", "read"})
            => cleanupCount[j] = 1

(* C3 *)

\* C3: when at least one image download succeeds the job goes on to the manifest
\* and the encoder with exactly the images that succeeded; when none succeeds
\* (or the list is empty) the job fails with 'No images were processed
\* successfully' and the encoder is not invoked.
C3_PartialImageFailure ==
    \A j \in Jobs :
        /\ (pc[j] \in {"manifest", "encoding", "read", "cleanup", "done"}
              \/ exitPath[j] \in {"manifest", "encode", "read"})
              => /\ OkImages(j) # {}
                 /\ {validImagePaths[j][m] : m \in DOMAIN validImagePaths[j]}
                      = {ImagePath(session[j], k - 1) : k \in OkImages(j)}
        /\ pc[j] \in {"encoding", "read", "cleanup", "done"} => Len(encoder[j]) = 1
        /\ ManifestOnDisk(j)
              => {Manifest(j)[m].path : m \in FilePositions(Manifest(j))}
                   = {ListedPath(j, k) : k \in OkImages(j)}
        /\ exitPath[j] = "images"
              <=> /\ pc[j] = "failed"
                  /\ audioSt[j] = "ok"
                  /\ OkImages(j) = {}
        /\ exitPath[j] = "images"
              => /\ encoder[j] = <<>>
                 /\ outcomes[j][1].message = NoImagesMsg

\* Two of the images failed or one failed and one succeeded, and the encoder ran
C3_Witness ==
    \E j \in Jobs :
        /\ encoder[j] # <<>>
        /\ OkImages(j) # {}
        /\ FailedImages(j) # {}

(* C4 *)

\* C4: a failed audio download fails the job whatever the images are; no image
\* is fetched, no manifest is written and the encoder is not invoked.
C4_AudioFailureFatal ==
    \A j \in Jobs :
        audioSt[j] = "failed"
            => /\ pc[j] = "failed"
               /\ exitPath[j] = "audio"
               /\ Len(outcomes[j]) = 1
               /\ outcomes[j][1].kind # "result"
               /\ fetchSt[j] = <<>>
               /\ FileId(FilelistPath(session[j])) \notin DOMAIN files
               /\ encoder[j] = <<>>

\* The audio failed for a request whose images could have been fetched
C4_Witness ==
    \E j \in Jobs :
        /\ audioSt[j] = "failed"
        /\ \E k \in DOMAIN args[j].images : args[j].images[k] = RemoteUrl

(* C5 *)

\* C5: whatever the completion order of the concurrent image downloads, the
\* manifest has at least one entry, lists only images whose download succeeded,
\* and lists them in the order of the input list.
C5_ManifestKeepsInputOrder ==
    \A j \in Jobs :
        ManifestOnDisk(j)
            => LET lines == Manifest(j)
                   pos   == FilePositions(lines)
               IN  /\ pos # {}
                   /\ \A a \in pos :
                        \E k \in OkImages(j) : lines[a].path = ListedPath(j, k)
                   /\ \A a, b \in pos :
                        a < b =>
                          \A ka, kb \in OkImages(j) :
                            (lines[a].path = ListedPath(j, ka)
                               /\ lines[b].path = ListedPath(j, kb)) => ka <= kb

\* A later image completed before an earlier one and both are in the manifest
C5_Witness ==
    \E j \in Jobs :
        /\ ManifestOnDisk(j)
        /\ Variant(j) = "parallel"
        /\ Len(completed[j]) >= 2
        /\ completed[j][1] > completed[j][2]
        /\ {completed[j][1] + 1, completed[j][2] + 1} \subseteq OkImages(j)

-----------------------------------------------------------------------------
(* C6 *)

RECURSIVE SumMs(_, _)
\* The sum of the duration lines among the first k lines, in milliseconds
SumMs(lines, k) ==
    IF k = 0 THEN 0
    ELSE SumMs(lines, k - 1) + (IF lines[k].kind = "duration" THEN lines[k].ms ELSE 0)

Abs(x) == IF x < 0 THEN -x ELSE x

\* C6: for N >= 1 fetched images and a total duration of D milliseconds, the
\* durations written to the manifest sum to D within N x 1 ms.
C6_DurationsSumToTotal ==
    \A j \in Jobs :
        ManifestOnDisk(j)
            => /\ Len(validImagePaths[j]) >= 1
               /\ Abs(SumMs(Manifest(j), Len(Manifest(j))) - args[j].duration)
                    <= Len(validImagePaths[j])

\* The share is not a whole number of milliseconds: the written durations sum
\* to something other than D
C6_Witness ==
    \E j \in Jobs :
        /\ ManifestOnDisk(j)
        /\ Len(validImagePaths[j]) >= 2
        /\ SumMs(Manifest(j), Len(Manifest(j))) # args[j].duration

(* C7 *)

\* C7 as stated: the manifest has a duration line for every entry but the last,
\* N - 1 in all, and ends with the file line of the last image.
C7_LastEntryWithoutDuration ==
    \A j \in Jobs :
        ManifestOnDisk(j)
            => LET lines == Manifest(j)
                   N     == Len(validImagePaths[j])
               IN  /\ Cardinality(DurationPositions(lines)) = N - 1
                   /\ lines[Len(lines)].kind = "file"
                   /\ lines[Len(lines)].path = NormalizePath(validImagePaths[j][N])

\* C7 as amended: the manifest is a file line and a duration line for each of
\* the N entries, the last included, then the last image's file line once more:
\* 2N + 1 lines, N of them duration lines.
C7_ManifestShape ==
    \A j \in Jobs :
        ManifestOnDisk(j)
            => LET lines == Manifest(j)
                   valid == validImagePaths[j]
                   N     == Len(valid)
               IN  /\ Len(lines) = 2 * N + 1
                   /\ \A m \in 1 .. N :
                        /\ lines[2 * m - 1].kind = "file"
                        /\ lines[2 * m - 1].path = [valid[m] EXCEPT !.sep = "/"]
                        /\ lines[2 * m].kind = "duration"
                   /\ lines[2 * N + 1].kind = "file"
                   /\ lines[2 * N + 1].path = [valid[N] EXCEPT !.sep = "/"]
                   /\ Cardinality(DurationPositions(lines)) = N

\* A manifest of two or more entries written on a platform whose separator is
\* the backslash
C7_Witness ==
    \E j \in Jobs :
        /\ ManifestOnDisk(j)
        /\ Len(validImagePaths[j]) >= 2
        /\ sep = "\\"

(* C8 *)

PathsOf(ops) == {op[2] : op \in ops}

\* C8: two render jobs never write, read, hand to the encoder or delete a
\* common path: each works inside the directory of its own session identifier.
C8_JobsTouchDisjointPaths ==
    \A j, k \in Jobs :
        j # k
            => /\ PathsOf(touched[j]) \cap PathsOf(touched[k]) = {}
               /\ \A f \in PathsOf(touched[j]) : f[1] = session[j]
               /\ session[j] # 0 => session[j] # session[k]

\* Two jobs are encoding at the same time after each has written its files
C8_Witness ==
    \E j, k \in Jobs :
        /\ j # k
        /\ pc[j] = "encoding"
        /\ pc[k] = "encoding"
        /\ touched[j] # {}
        /\ touched[k] # {}

(* C9 *)

CaptionsEnabled(j) ==
    /\ videoData[j] # <<>>
    /\ videoData[j][1].show_captions
    /\ videoData[j][1].captions # <<>>

\* C9: when the show-captions flag is false or the caption list is empty, the
\* encoder invocation has the manifest and the audio as its only inputs and the
\* scale/pad filter as its only filter.
C9_NoSubtitlesUnlessEnabled ==
    \A j \in Jobs :
        \A m \in DOMAIN encoder[j] :
            ~CaptionsEnabled(j)
                => /\ encoder[j][m].vf = <<ScalePad>>
                   /\ encoder[j][m].inputs
                        = <<FilelistPath(session[j]), AudioPath(session[j])>>

\* The encoder ran for a stored video that holds captions with the flag off
C9_Witness ==
    \E j \in Jobs :
        /\ encoder[j] # <<>>
        /\ videoData[j] # <<>>
        /\ videoData[j][1].captions # <<>>
        /\ ~videoData[j][1].show_captions

(* C10 *)

\* C10: a render request ends in exactly one outcome, a result whose size is
\* the byte length of the output the encoder produced or one failure message
\* (status 500 from the controller); after an encoder failure the output is
\* never read and no result is returned.
C10_OneTerminalOutcome ==
    \A j \in Jobs :
        /\ Len(outcomes[j]) <= 1
        /\ Terminal(j) <=> Len(outcomes[j]) = 1
        /\ pc[j] = "done"
              => /\ outcomes[j][1].kind = "result"
                 /\ outcomes[j][1].contentType = "video/mp4"
                 /\ produced[j] # <<>>
                 /\ outcomes[j][1].size = produced[j][1]
                 /\ outcomes[j][1].video = [base64Of |-> produced[j][1]]
        /\ pc[j] = "failed"
              => /\ outcomes[j][1].kind \in {"error", "throw"}
                 /\ outcomes[j][1].kind = "error" <=> inbox[j].kind = "byId"
                 /\ outcomes[j][1].kind = "error"
                      => /\ outcomes[j][1].status = 500
                         /\ outcomes[j][1].message # ""
        /\ exitPath[j] = "encode"
              => /\ pc[j] = "failed"
                 /\ videoBuffer[j] = <<>>
                 /\ <<"read", FileId(OutputPath(session[j]))>> \notin touched[j]

\* A request returned a result for an output of more than one byte
C10_Witness ==
    \E j \in Jobs :
        /\ pc[j] = "done"
        /\ outcomes[j][1].kind = "result"
        /\ outcomes[j][1].size = 2


-----------------------------------------------------------------------------
(* C11 *)

\* C11: each render invocation owns one session working directory that no
\* other session uses, and that directory no longer exists once the job has
\* ended, whether it succeeded or failed.
C11_SessionDirGoneAtJobEnd ==
    /\ \A j \in Jobs : \A k \in Jobs :
          (j # k /\ pc[j] # "idle" /\ pc[k] # "idle") => session[j] # session[k]
    /\ \A j \in Jobs : Terminal(j) => session[j] \notin dirs

-----------------------------------------------------------------------------
(* C12 *)

DecimalDigits == {"0", "1", "2", "3", "4", "5", "6", "7", "8", "9"}

\* The number a sequence of decimal digits spells
RECURSIVE NumberOf(_)
NumberOf(chars) ==
    IF chars = <<>> THEN 0
    ELSE 10 * NumberOf(SubSeq(chars, 1, Len(chars) - 1))
         + (CHOOSE d \in 0 .. 9 : ToString(d) = chars[Len(chars)])

AllDigits(chars) ==
    \A k \in DOMAIN chars : chars[k] \in DecimalDigits

\* C12: the formatter maps an offset of m >= 0 milliseconds to HH:MM:SS,mmm
\* with hours = floor(floor(m/1000)/3600), minutes = floor((floor(m/1000) mod
\* 3600)/60), seconds = floor(m/1000) mod 60 and ms = m mod 1000, zero-padded
\* to 2, 2, 2 and 3 digits; 1500 gives 00:00:01,500, 3661000 gives
\* 01:01:01,000 and 0 gives 00:00:00,000.
C12_TimeFormat ==
    fmt.stage = "done" =>
        LET t  == fmt.text
            n  == Len(t)
            ts == fmt.m \div 1000
            hh == SubSeq(t, 1, n - 10)
            mm == SubSeq(t, n - 8, n - 7)
            ss == SubSeq(t, n - 5, n - 4)
            ms == SubSeq(t, n - 2, n)
        IN  /\ n >= 12
            /\ t[n - 9] = ":" /\ t[n - 6] = ":" /\ t[n - 3] = ","
            /\ AllDigits(hh) /\ AllDigits(mm) /\ AllDigits(ss) /\ AllDigits(ms)
            /\ NumberOf(hh) = ts \div 3600
            /\ NumberOf(mm) = (ts % 3600) \div 60
            /\ NumberOf(ss) = ts % 60
            /\ NumberOf(ms) = fmt.m % 1000
            /\ (n > 12 => hh[1] # "0")
            /\ (fmt.m = 1500 =>
                  t = <<"0", "0", ":", "0", "0", ":", "0", "1", ",", "5", "0", "0">>)
            /\ (fmt.m = 3661000 =>
                  t = <<"0", "1", ":", "0", "1", ":", "0", "1", ",", "0", "0", "0">>)
            /\ (fmt.m = 0 =>
                  t = <<"0", "0", ":", "0", "0", ":", "0", "0", ",", "0", "0", "0">>)

\* 3661000 ms was formatted, every field of it non-zero but the last
C12_Witness ==
    /\ fmt.stage = "done"
    /\ fmt.m = 3661000
    /\ fmt.text = <<"0", "1", ":", "0", "1", ":", "0", "1", ",", "0", "0", "0">>

-----------------------------------------------------------------------------
(* C13 *)

\* Every image download of job j has resolved, with success or with failure
AllFetchesResolved(j) ==
    /\ Len(fetchSt[j]) = Len(args[j].images)
    /\ \A k \in DOMAIN fetchSt[j] : fetchSt[j][k] \in {"ok", "failed"}

\* C13: the manifest is built and the encoder is invoked only after every image
\* download of the job has resolved (succeeded or failed); none is still in
\* flight or still to start when the manifest is written or while the encoder
\* runs.
C13_TimelineAfterAllFetches ==
    \A j \in Jobs :
        (\/ pc[j] \in {"manifest", "encoding", "read", "cleanup", "done"}
         \/ <<"write", FileId(FilelistPath(session[j]))>> \in touched[j]
         \/ encoder[j] # <<>>)
        => AllFetchesResolved(j)

\* The encoder of a parallel job runs on two images that resolved in the
\* reverse of their input order, one of them with a failure
C13_Witness ==
    \E j \in Jobs :
        /\ pc[j] = "encoding"
        /\ Variant(j) = "parallel"
        /\ completed[j] = <<1, 0>>
        /\ FailedImages(j) # {}
        /\ OkImages(j) # {}

-----------------------------------------------------------------------------
(* C14 *)

\* Job j attempted an unlink of a file that is still on disk
UnlinkFailed(j) ==
    \E f \in DOMAIN files : <<"unlink", f>> \in touched[j]

\* C14: if deleting a temporary file fails during cleanup, after a successful
\* encode and read of the output, the failure is only logged: renderVideo still
\* returns the render result and does not throw.
C14_CleanupFailureNotEscalated ==
    \A j \in Jobs :
        UnlinkFailed(j) =>
            /\ pc[j] = "done"
            /\ exitPath[j] = "normal"
            /\ Len(outcomes[j]) = 1
            /\ outcomes[j][1].kind = "result"
            /\ outcomes[j][1].size = videoBuffer[j][1]

\* A job returned its result although an unlink of its cleanup failed
C14_Witness ==
    \E j \in Jobs :
        /\ UnlinkFailed(j)
        /\ pc[j] = "done"
        /\ outcomes[j][1].kind = "result"

-----------------------------------------------------------------------------
(* C15 *)

\* The reference begins with 'data:'
Inline(url) ==
    url # <<>> /\ url[1] = "data:"

\* The reference has the whole shape data:<type>;base64,<body>
WellFormedInline(url) ==
    Inline(url) /\ Len(url) = 4 /\ url[3] = ";base64," /\ url[2] # "" /\ url[4] # ""

\* No file was written or left at path p by job j
NeverWritten(j, p) ==
    /\ <<"write", FileId(p)>> \notin touched[j]
    /\ FileId(p) \notin DOMAIN files

\* C15: for a reference that begins with 'data:', downloadFile performs no
\* network retrieval: a well-formed payload is decoded and written locally, and
\* a malformed one fails with the decode error, without network access and
\* without writing the destination file.
C15_InlinePayloadNeverFetched ==
    \A j \in Jobs :
        /\ \A u \in fetched[j] : ~Inline(u)
        /\ (audioSt[j] = "ok" /\ Inline(args[j].audioUrl)) =>
              /\ WellFormedInline(args[j].audioUrl)
              /\ <<"write", FileId(AudioPath(session[j]))>> \in touched[j]
        /\ (audioSt[j] = "failed" /\ Inline(args[j].audioUrl)
                /\ ~WellFormedInline(args[j].audioUrl)) =>
              /\ NeverWritten(j, AudioPath(session[j]))
              /\ outcomes[j][1].message = "Invalid data URL format"
        /\ \A k \in DOMAIN fetchSt[j] :
              /\ (fetchSt[j][k] = "ok" /\ Inline(args[j].images[k])) =>
                    /\ WellFormedInline(args[j].images[k])
                    /\ <<"write", FileId(ImagePath(session[j], k - 1))>> \in touched[j]
              /\ (fetchSt[j][k] = "failed" /\ Inline(args[j].images[k])
                      /\ ~WellFormedInline(args[j].images[k])) =>
                    NeverWritten(j, ImagePath(session[j], k - 1))

\* A well-formed inline audio was written and a malformed inline image failed,
\* while a remote image of the same job was fetched
C15_Witness ==
    \E j \in Jobs :
        /\ audioSt[j] = "ok"
        /\ WellFormedInline(args[j].audioUrl)
        /\ fetched[j] = {RemoteUrl}
        /\ \E k \in DOMAIN fetchSt[j] :
              /\ fetchSt[j][k] = "failed"
              /\ Inline(args[j].images[k])
              /\ ~WellFormedInline(args[j].images[k])

-----------------------------------------------------------------------------
(* C16 *)

\* The row of job j has been read and its arguments derived from it
RowRead(j) ==
    videoData[j] # <<>> /\ args[j] # NoArgs

\* C16 as stated: the fallback of 30 seconds is substituted only when the row
\* carries no duration; every stored numeric duration, 0 included, is passed
\* unchanged.
C16_FallbackOnlyWhenMissing ==
    \A j \in Jobs :
        RowRead(j) =>
            args[j].duration =
                IF videoData[j][1].duration = <<>>
                THEN FallbackDurationMs
                ELSE videoData[j][1].duration[1]

\* C16, amended: the fallback of 30 seconds is substituted when the row carries
\* no duration or a duration of 0; every stored non-zero duration is passed
\* unchanged.
C16_FallbackWhenFalsy ==
    \A j \in Jobs :
        RowRead(j) =>
            LET col == videoData[j][1].duration
            IN  /\ (col = <<>>) => args[j].duration = FallbackDurationMs
                /\ (col # <<>> /\ col[1] = 0) => args[j].duration = FallbackDurationMs
                /\ (col # <<>> /\ col[1] # 0) => args[j].duration = col[1]

\* A row with a stored duration of 0 was rendered with the fallback
C16_Witness ==
    \E j \in Jobs :
        /\ RowRead(j)
        /\ videoData[j][1].duration = <<0>>
        /\ args[j].duration = FallbackDurationMs
        /\ pc[j] \notin {"idle", "query"}

-----------------------------------------------------------------------------
(* C17 *)

\* The calls that handled a payment for user u to the end: the credits were
\* read and the update of the credits was accepted
PaymentsHandled(u) ==
    {h \in Hooks :
        /\ hookPc[h] = "done"
        /\ ActionOf(hookPayload[h]) \in {"payment_succeeded", "payment.succeeded"}
        /\ UserIdOf(Data(hookPayload[h])) = u
        /\ \E k \in DOMAIN hookLog[h] :
              hookLog[h][k].op = "update" /\ hookLog[h][k].ok}

\* C17: for an existing user, once k payment webhooks have been handled to the
\* end, under any interleaving of their reads and writes of the credits, the
\* user's credits are the initial credits plus 100 for each of the k.
C17_NoCreditGrantLost ==
    (\A h \in Hooks : hookPc[h] \in {"done", "failed"}) =>
        \A u \in DOMAIN users :
            users[u].credits =
                usersInit[u].credits + 100 * Cardinality(PaymentsHandled(u))

-----------------------------------------------------------------------------
(* C18 *)

\* C18: on the same image list and the same outcome of each download, the
\* parallel version (index assignment, then filter) and the sequential one
\* (push) end with the same ordered list of valid image paths, the same
\* per-image duration and the same decision to fail with 'No images were
\* processed successfully'.
C18_VariantsAgreeOnTimeline ==
    eq.stage = "done" =>
        /\ eq.par[1].valid = eq.sq[1].valid
        /\ eq.par[1].imageDuration = eq.sq[1].imageDuration
        /\ (eq.par[1].message = NoImagesMsg) <=> (eq.sq[1].message = NoImagesMsg)
        /\ \A k \in DOMAIN eq.par[1].valid : eq.par[1].valid[k] # Hole

\* Both versions are done with two images, the first of which failed and
\* resolved last in the parallel version
C18_Witness ==
    /\ eq.stage = "done"
    /\ eq.ok = <<FALSE, TRUE>>
    /\ eq.order = <<1, 0>>
    /\ Len(eq.sq[1].valid) = 1
    /\ eq.par[1].message = ""

-----------------------------------------------------------------------------
(* C19 *)

\* C19: on the success path a deletion is attempted for audio.mp3, filelist.txt,
\* output.mp4 and every valid image file, even when the deletion of an earlier
\* file of that sequence fails; one failed deletion leaves at most that one
\* file behind.
C19_EveryDeletionAttempted ==
    \A j \in Jobs :
        pc[j] = "done" =>
            /\ \A m \in DOMAIN CleanupOrder(j) :
                  <<"unlink", FileId(CleanupOrder(j)[m])>> \in touched[j]
            /\ Cardinality(JobFiles(j)) <= 1

-----------------------------------------------------------------------------
(* C20 *)

RecognisedActions ==
    {"membership_activated", "membership.activated", "membership.went_valid",
     "membership_deactivated", "membership.deactivated", "membership.went_invalid",
     "payment_succeeded", "payment.succeeded"}

\* The payload of call h carries a user id in one of the three places
HasUserId(h) ==
    LET data == Data(hookPayload[h])
    IN  \/ data.user_id # ""
        \/ data.user # <<>> /\ data.user[1].id # ""
        \/ data.membership # <<>> /\ data.membership[1].user_id # ""

HasRecognisedAction(h) ==
    \/ hookPayload[h].action \in RecognisedActions
    \/ hookPayload[h].action = "" /\ hookPayload[h].type \in RecognisedActions

\* C20: handleWhopWebhook changes the users table only for a recognised action
\* with a resolvable user id: a payload without a user id fails with 'Missing
\* user_id' before any read or write of the database, and a payload with an
\* unrecognised action returns success and leaves subscription_status,
\* subscription_plan and credits of every user unchanged.
C20_UsersChangeOnlyForRecognisedAction ==
    /\ \A h \in Hooks :
          /\ (hookPc[h] # "idle" /\ ~HasUserId(h)) =>
                /\ hookPc[h] = "failed"
                /\ hookResult[h][1].kind = "throw"
                /\ hookResult[h][1].message = "Missing user_id"
                /\ hookLog[h] = <<>>
          /\ (hookPc[h] # "idle" /\ HasUserId(h) /\ ~HasRecognisedAction(h)) =>
                /\ hookPc[h] = "done"
                /\ hookResult[h][1].kind = "result"
                /\ hookResult[h][1].success
                /\ hookLog[h] = <<>>
          /\ hookLog[h] # <<>> => (HasUserId(h) /\ HasRecognisedAction(h))
    /\ users # usersInit =>
          \E h \in Hooks :
              /\ HasUserId(h)
              /\ HasRecognisedAction(h)
              /\ \E k \in DOMAIN hookLog[h] :
                    hookLog[h][k].op = "update" /\ hookLog[h][k].ok

\* A call with an unknown action returned success, another without a user id
\* was refused, and the table is as it was
C20_Witness ==
    \E h \in Hooks : \E g \in Hooks :
        /\ hookPc[h] = "done"
        /\ hookPayload[h].action = "refund.created"
        /\ HasUserId(h)
        /\ hookPc[g] = "failed"
        /\ ~HasUserId(g)
        /\ HasRecognisedAction(g)
        /\ users = usersInit

====
